---------------------------- MODULE Spec2Model ----------------------------
(***************************************************************************)
(* Model of the offline cache agent of the portfolio site (src/sw.js):     *)
(* the install, activate and fetch handlers over the Cache Storage of the  *)
(* origin.  Strings the code inspects (URLs, partition names, the Accept   *)
(* header) are sequences of tokens, so that startsWith, includes and the   *)
(* suffix patterns are computed and not assumed.                           *)
(***************************************************************************)
EXTENDS Naturals, Sequences, FiniteSets, TLC

(***************************************************************************)
(* Bounds of the model.                                                    *)
(***************************************************************************)
MaxFetches == 2
MaxBody == 2
MaxNotifications == 2

(***************************************************************************)
(* Program constants.                                                      *)
(***************************************************************************)
CACHE_NAME == <<"portfolio-v2.0.0">>
OFFLINE_CACHE == <<"offline-cache-v1">>
IMAGE_CACHE == <<"image-cache-v1">>
OFFLINE_URL == <<"/offline", ".", "html">>
HtmlTimeout == 3000
DefaultTimeout == 5000

CurrentNames == {CACHE_NAME, IMAGE_CACHE, OFFLINE_CACHE}

\* Partitions other code or an older version of the agent may have left.
OLD_CACHE == <<"portfolio-v1.0.0">>
WORKBOX_PRECACHE == <<"workbox-", "precache-v2">>
WORKBOX_RUNTIME == <<"workbox-", "runtime">>
AllNames == CurrentNames \cup {OLD_CACHE, WORKBOX_PRECACHE, WORKBOX_RUNTIME}

U_ROOT == <<"/">>
U_STYLE == <<"/style", ".", "css">>
U_PROFILE == <<"/images/profile", ".", "png">>
Keys == {U_ROOT, U_STYLE, U_PROFILE, OFFLINE_URL}

\* The manifest (three of its entries: a page, a stylesheet, an image).
STATIC_ASSETS ==
    << [url |-> U_ROOT, priority |-> 1],
       [url |-> U_STYLE, priority |-> 2],
       [url |-> U_PROFILE, priority |-> 2] >>
Assets == 1..Len(STATIC_ASSETS)

(***************************************************************************)
(* Responses.  None is the absent value (undefined), Failure a rejected    *)
(* promise as the requester sees it (a network error).                     *)
(***************************************************************************)
Resp(s, t, b) == [status |-> s, type |-> t, body |-> b]
None == Resp(0, "undefined", 0)
Failure == Resp(0, "error", 0)
OfflineDoc == Resp(200, "default", 0)
NetResponses ==
    {Resp(200, "basic", b) : b \in 1..MaxBody}
        \cup {Resp(404, "basic", 0), Resp(200, "cors", 1)}
InstallResponses == {Resp(200, "basic", 1), Resp(404, "basic", 0)}

(***************************************************************************)
(* String operations on token sequences.                                   *)
(***************************************************************************)
ToLower(t) ==
    CASE t = "PNG" -> "png"
      [] t = "JPG" -> "jpg"
      [] t = "CSS" -> "css"
      [] t = "JS" -> "js"
      [] OTHER -> t

StartsWith(s, prefix) == Len(s) >= 1 /\ s[1] = prefix

Includes(s, token) == \E i \in 1..Len(s) : s[i] = token

\* /\.(png|jpg|jpeg|gif|svg|webp)$/i
IsImageUrl(u) ==
    /\ Len(u) >= 2
    /\ u[Len(u) - 1] = "."
    /\ ToLower(u[Len(u)]) \in {"png", "jpg", "jpeg", "gif", "svg", "webp"}

\* /\.(js|css|woff2?|ttf|eot)$/
IsStaticUrl(u) ==
    /\ Len(u) >= 2
    /\ u[Len(u) - 1] = "."
    /\ u[Len(u)] \in {"js", "css", "woff", "woff2", "ttf", "eot"}

(***************************************************************************)
(* Cache Storage: the partitions in creation order and their entries.      *)
(***************************************************************************)
EmptyCache == [k \in Keys |-> None]

SeqRange(s) == {s[i] : i \in 1..Len(s)}

\* caches.match: the entry of the first partition, in creation order, that
\* holds the key; undefined when none does.
CachesMatch(names, st, key) ==
    LET hits == {i \in 1..Len(names) : st[names[i]][key] # None}
    IN  IF hits = {} THEN None
        ELSE st[names[CHOOSE i \in hits : \A j \in hits : i <= j]][key]

\* caches.open: creates the partition when it does not exist.
CachesOpen(names, n) == IF n \in SeqRange(names) THEN names ELSE Append(names, n)

OpenAll(names, ns) ==
    LET a == IF CACHE_NAME \in ns THEN CachesOpen(names, CACHE_NAME) ELSE names
        b == IF IMAGE_CACHE \in ns THEN CachesOpen(a, IMAGE_CACHE) ELSE a
    IN  IF OFFLINE_CACHE \in ns THEN CachesOpen(b, OFFLINE_CACHE) ELSE b

\* cache.put
CachePut(st, n, key, r) == [st EXCEPT ![n][key] = r]

\* caches.delete of every name of a set
DeleteAll(names, dead) == SelectSeq(names, LAMBDA n : n \notin dead)

ClearAll(st, dead) == [n \in AllNames |-> IF n \in dead THEN EmptyCache ELSE st[n]]

VARIABLES
    cacheNames,     \* partitions that exist, in creation order
    store,          \* store[name][key]: the entry, or None
    phase,          \* lifecycle of this version of the agent
    installPromise, \* the promise given to event.waitUntil by install
    installLog,     \* "error" once console.error reported a failed install
    skipWaiting,    \* TRUE once self.skipWaiting() was called
    asset,          \* asset[i]: progress of the manifest entry's operation
    assetResp,      \* asset[i]'s fetched response while it is being put
    offlinePut,     \* progress of offlineCache.put(OFFLINE_URL, offlinePage)
    activateRuns,   \* partition lists left by the activate runs since the last other event
    req,            \* req[s]: the s-th fetch event the agent handles
    passed,         \* how each fetch event nobody responded to left the handler
    notifications,  \* the notifications shown by push events, in order
    windows         \* the URLs given to clients.openWindow, in order

vars == << cacheNames, store, phase, installPromise, installLog, skipWaiting,
           asset, assetResp, offlinePut, activateRuns, req, passed,
           notifications, windows >>

installVars == << installPromise, installLog, skipWaiting, asset, assetResp, offlinePut >>

notifyVars == << notifications, windows >>

swVars == << cacheNames, store, phase, installVars, activateRuns, req, passed >>


(***************************************************************************)
(* Requests.                                                               *)
(***************************************************************************)
HtmlAccept == << "text/html", "application/xhtml+xml" >>
AnyAccept == << "*/*" >>
U_EXTENSION == << "chrome-extension:", "//abcdef/content", ".", "js" >>
U_TOOLING == << "/", "browser-sync", "/client", ".", "js" >>

Request(m, u, h, c, md) ==
    [method |-> m, url |-> u, headers |-> h, cache |-> c, mode |-> md]

\* The fetch events the model dispatches.
RequestInputs ==
    {Request("GET", u, [accept |-> a], "default", "no-cors") :
        u \in Keys, a \in {HtmlAccept, AnyAccept}}
    \cup { Request("POST", U_ROOT, [accept |-> HtmlAccept], "default", "navigate"),
           Request("GET", U_EXTENSION, [accept |-> AnyAccept], "default", "no-cors"),
           Request("GET", U_TOOLING, [accept |-> AnyAccept], "default", "no-cors"),
           Request("GET", U_STYLE, [accept |-> AnyAccept], "only-if-cached", "cors"),
           Request("GET", U_STYLE, [accept |-> AnyAccept], "only-if-cached", "same-origin"),
           Request("GET", U_STYLE, << >>, "default", "no-cors") }

\* Skips without the only-if-cached condition.
SkipsWithoutCacheMode(rq) ==
    \/ rq.method # "GET"
    \/ StartsWith(rq.url, "chrome-extension:")
    \/ Includes(rq.url, "browser-sync")

\* The early return of the fetch handler.
Skips(rq) ==
    \/ rq.method # "GET"
    \/ StartsWith(rq.url, "chrome-extension:")
    \/ Includes(rq.url, "browser-sync")
    \/ (rq.cache = "only-if-cached" /\ rq.mode # "same-origin")

\* request.headers.get('accept') is null for an absent header, and the call
\* of includes on it throws.
HasAccept(rq) == "accept" \in DOMAIN rq.headers

AcceptsHtml(rq) == Includes(rq.headers.accept, "text/html")

\* The branch of the handler a request that is not skipped takes.
Bucket(rq) ==
    IF ~HasAccept(rq) THEN "threw"
    ELSE IF AcceptsHtml(rq) THEN "html"
    ELSE IF IsImageUrl(rq.url) THEN "image"
    ELSE IF IsStaticUrl(rq.url) THEN "static"
    ELSE "default"

\* TargetCache with the default branch writing to the offline partition.
TargetCacheOfflineForDefault(b) ==
    IF b = "image" THEN IMAGE_CACHE
    ELSE IF b = "default" THEN OFFLINE_CACHE
    ELSE CACHE_NAME

\* TargetCache with every branch writing to the image partition.
TargetCacheImage(b) == IMAGE_CACHE

\* The partition a branch writes network responses to.
TargetCache(b) == IF b = "image" THEN IMAGE_CACHE ELSE CACHE_NAME

\* TimeoutOf with a plain fetch in the html branch.
TimeoutOfHtmlPlainFetch(b) ==
    IF b = "default" THEN DefaultTimeout
    ELSE 0

\* The timeout fetchWithTimeout is called with (the default branch passes
\* none and gets the parameter's default); 0 for a plain fetch.
TimeoutOf(b) ==
    IF b = "html" THEN HtmlTimeout
    ELSE IF b = "default" THEN DefaultTimeout
    ELSE 0

\* Cacheable with the html branch under the rule of the other branches.
CacheableOkOnly(b, r) ==
    ~(r = None \/ r.status # 200 \/ r.type # "basic")

\* Cacheable without the test of the response type.
CacheableAnyType(b, r) ==
    IF b = "html" THEN TRUE
    ELSE ~(r = None \/ r.status # 200)

\* Whether a branch writes a network response to its partition.
Cacheable(b, r) ==
    IF b = "html" THEN TRUE
    ELSE ~(r = None \/ r.status # 200 \/ r.type # "basic")

Slots == 1..MaxFetches

FreeSlot ==
    [st |-> "free", url |-> << >>, bucket |-> "none", result |-> None,
     net |-> "none", netResp |-> None, timedOut |-> FALSE, hit |-> None,
     write |-> "none"]

(***************************************************************************)
(* What the origin's storage may hold when this version is registered:     *)
(* nothing, the partitions of the previous version, or partitions of an    *)
(* unrelated subsystem.                                                    *)
(***************************************************************************)
InitialCacheLists ==
    { << >>,
      << OLD_CACHE, IMAGE_CACHE, OFFLINE_CACHE >>,
      << WORKBOX_PRECACHE, WORKBOX_RUNTIME >> }

InitialContent(n) ==
    CASE n = OLD_CACHE ->
            [EmptyCache EXCEPT ![U_ROOT] = Resp(200, "basic", 1),
                               ![U_STYLE] = Resp(200, "basic", 1)]
      [] n = IMAGE_CACHE -> [EmptyCache EXCEPT ![U_PROFILE] = Resp(200, "basic", 1)]
      [] n = OFFLINE_CACHE -> [EmptyCache EXCEPT ![OFFLINE_URL] = OfflineDoc]
      [] n = WORKBOX_PRECACHE -> [EmptyCache EXCEPT ![U_STYLE] = Resp(200, "basic", 1)]
      [] OTHER -> EmptyCache

Init ==
    /\ cacheNames \in InitialCacheLists
    /\ store = [n \in AllNames |->
                   IF n \in SeqRange(cacheNames) THEN InitialContent(n) ELSE EmptyCache]
    /\ phase = "parsed"
    /\ installPromise = "none"
    /\ installLog = "none"
    /\ skipWaiting = FALSE
    /\ asset = [i \in Assets |-> "idle"]
    /\ assetResp = [i \in Assets |-> None]
    /\ offlinePut = "idle"
    /\ activateRuns = << >>
    /\ req = [s \in Slots |-> FreeSlot]
    /\ passed = << >>
    /\ notifications = << >>
    /\ windows = << >>

\* Fetch events the agent responds to so far.
Handled == Cardinality({s \in Slots : req[s].st # "free"})

(***************************************************************************)
(* install                                                                 *)
(***************************************************************************)
AssetSettled(i) == asset[i] \in {"skipped", "cached", "failed"}

\* AssetTarget without the image pattern.
AssetTargetPrimary(u) == CACHE_NAME

\* The partition install writes a fetched manifest entry to.
AssetTarget(u) == IF IsImageUrl(u) THEN IMAGE_CACHE ELSE CACHE_NAME

\* Promise.all of the three caches.open; opened is the set of opens that
\* succeed.  With all three open the per-asset operations and the offline
\* page's put are started; otherwise the chain goes to its catch handler.
InstallOpen(opened) ==
    /\ phase = "parsed"
    /\ cacheNames' = OpenAll(cacheNames, opened)
    /\ IF opened = CurrentNames
       THEN /\ phase' = "installing"
            /\ installPromise' = "pending"
            /\ asset' = [i \in Assets |-> "matching"]
            /\ offlinePut' = "pending"
            /\ UNCHANGED installLog
       ELSE /\ phase' = "installed"
            /\ installPromise' = "fulfilled"
            /\ installLog' = "error"
            /\ UNCHANGED << asset, offlinePut >>
    /\ UNCHANGED << store, skipWaiting, assetResp, activateRuns, req, passed, notifyVars >>

\* AssetMatch looking the entry up in the primary partition only.
AssetMatchPrimaryOnly(i) ==
    /\ asset[i] = "matching"
    /\ asset' = [asset EXCEPT ![i] =
                    IF store[CACHE_NAME][STATIC_ASSETS[i].url] # None
                    THEN "skipped" ELSE "fetching"]
    /\ UNCHANGED << cacheNames, store, phase, installPromise, installLog,
                    skipWaiting, assetResp, offlinePut, activateRuns, req, passed, notifyVars >>

\* caches.match(asset.url): an entry in any partition ends the operation.
AssetMatch(i) ==
    /\ asset[i] = "matching"
    /\ asset' = [asset EXCEPT ![i] =
                    IF CachesMatch(cacheNames, store, STATIC_ASSETS[i].url) # None
                    THEN "skipped" ELSE "fetching"]
    /\ UNCHANGED << cacheNames, store, phase, installPromise, installLog,
                    skipWaiting, assetResp, offlinePut, activateRuns, req, passed, notifyVars >>

\* A fetched response is accepted only with status 200.
AssetAccepts(r) == ~(r = None \/ r.status # 200)

\* fetch(asset.url) settles with r (Failure: the fetch rejects).
AssetFetched(i, r) ==
    /\ asset[i] = "fetching"
    /\ IF r # Failure /\ AssetAccepts(r)
       THEN /\ asset' = [asset EXCEPT ![i] = "putting"]
            /\ assetResp' = [assetResp EXCEPT ![i] = r]
       ELSE /\ asset' = [asset EXCEPT ![i] = "failed"]
            /\ UNCHANGED assetResp
    /\ UNCHANGED << cacheNames, store, phase, installPromise, installLog,
                    skipWaiting, offlinePut, activateRuns, req, passed, notifyVars >>

\* The put of a fetched asset settles; a rejected put is caught and logged
\* like a failed fetch.
AssetPut(i, ok) ==
    /\ asset[i] = "putting"
    /\ IF ok
       THEN /\ store' = CachePut(store, AssetTarget(STATIC_ASSETS[i].url),
                                 STATIC_ASSETS[i].url, assetResp[i])
            /\ asset' = [asset EXCEPT ![i] = "cached"]
       ELSE /\ asset' = [asset EXCEPT ![i] = "failed"]
            /\ UNCHANGED store
    /\ assetResp' = [assetResp EXCEPT ![i] = None]
    /\ UNCHANGED << cacheNames, phase, installPromise, installLog, skipWaiting,
                    offlinePut, activateRuns, req, passed, notifyVars >>

\* offlineCache.put(OFFLINE_URL, offlinePage) settles.
OfflinePut(ok) ==
    /\ offlinePut = "pending"
    /\ IF ok
       THEN /\ store' = CachePut(store, OFFLINE_CACHE, OFFLINE_URL, OfflineDoc)
            /\ offlinePut' = "ok"
       ELSE /\ offlinePut' = "failed"
            /\ UNCHANGED store
    /\ UNCHANGED << cacheNames, phase, installPromise, installLog, skipWaiting,
                    asset, assetResp, activateRuns, req, passed, notifyVars >>

\* AssetPromise without the catch handler: a failed entry rejects.
AssetPromiseUncaught(st) ==
    IF st \in {"skipped", "cached"} THEN "fulfilled"
    ELSE IF st = "failed" THEN "rejected" ELSE "pending"

\* The promise of a manifest entry's operation: its catch handler logs a
\* warning and returns, so a failed entry fulfils it like any other.
AssetPromise(st) ==
    IF st \in {"skipped", "cached", "failed"} THEN "fulfilled" ELSE "pending"

\* What the promise given to waitUntil becomes when the chain ends in the
\* catch handler: the handler logs and returns, so the promise is fulfilled.
InstallCatch == "fulfilled"

\* InstallSettle with skipWaiting chained on the offline page's put alone.
InstallSettleEager ==
    /\ phase = "installing"
    /\ \/ /\ offlinePut = "ok"
          /\ skipWaiting' = TRUE
          /\ installPromise' = "fulfilled"
          /\ UNCHANGED installLog
       \/ /\ \/ offlinePut = "failed"
             \/ \E i \in Assets : AssetPromise(asset[i]) = "rejected"
          /\ installLog' = "error"
          /\ installPromise' = InstallCatch
          /\ UNCHANGED skipWaiting
    /\ phase' = "installed"
    /\ UNCHANGED << cacheNames, store, asset, assetResp, offlinePut, activateRuns, req, passed, notifyVars >>

\* The inner Promise.all settles: fulfilled once every member is, rejected
\* as soon as one member rejects.
InstallSettle ==
    /\ phase = "installing"
    /\ \/ /\ offlinePut = "ok"
          /\ \A i \in Assets : AssetPromise(asset[i]) = "fulfilled"
          /\ skipWaiting' = TRUE
          /\ installPromise' = "fulfilled"
          /\ UNCHANGED installLog
       \/ /\ \/ offlinePut = "failed"
             \/ \E i \in Assets : AssetPromise(asset[i]) = "rejected"
          /\ installLog' = "error"
          /\ installPromise' = InstallCatch
          /\ UNCHANGED skipWaiting
    /\ phase' = "installed"
    /\ UNCHANGED << cacheNames, store, asset, assetResp, offlinePut, activateRuns, req, passed, notifyVars >>

(***************************************************************************)
(* activate                                                                *)
(***************************************************************************)
\* First pass: the names the filter keeps for deletion.
FirstPassDeletes(names) ==
    {n \in SeqRange(names) :
        /\ n # CACHE_NAME
        /\ n # IMAGE_CACHE
        /\ n # OFFLINE_CACHE
        /\ ~StartsWith(n, "workbox-")}

\* SecondPassDeletes stopping at the first name it deletes.
SecondPassDeletesOne(names) ==
    LET dead == {i \in 1..Len(names) : names[i] \notin CurrentNames}
    IN  IF dead = {} THEN {}
        ELSE {names[CHOOSE i \in dead : \A j \in dead : i <= j]}

\* Second pass: the names deleted.
SecondPassDeletes(names) ==
    {n \in SeqRange(names) : n # CACHE_NAME /\ n # IMAGE_CACHE /\ n # OFFLINE_CACHE}

LastTwo(h) == IF Len(h) > 2 THEN Tail(h) ELSE h

\* The host dispatches activate once install's promise is fulfilled; the
\* handler lists the partitions and deletes the filtered ones.
ActivateFirstPass ==
    /\ \/ phase = "installed" /\ installPromise = "fulfilled"
       \/ phase = "activated" /\ Handled + Len(passed) = 0
    /\ phase' = "activating"
    /\ cacheNames' = DeleteAll(cacheNames, FirstPassDeletes(cacheNames))
    /\ store' = ClearAll(store, FirstPassDeletes(cacheNames))
    /\ UNCHANGED << installPromise, installLog, skipWaiting, asset, assetResp,
                    offlinePut, activateRuns, req, passed, notifyVars >>

ActivateSecondPass ==
    /\ phase = "activating"
    /\ phase' = "activated"
    /\ cacheNames' = DeleteAll(cacheNames, SecondPassDeletes(cacheNames))
    /\ store' = ClearAll(store, SecondPassDeletes(cacheNames))
    /\ activateRuns' = LastTwo(Append(activateRuns,
                                     DeleteAll(cacheNames, SecondPassDeletes(cacheNames))))
    /\ UNCHANGED << installVars, req, passed, notifyVars >>

(***************************************************************************)
(* fetch                                                                   *)
(***************************************************************************)
\* A fetch event.  A skipped request, and one whose handler throws, is left
\* to the host; the others start the strategy of their branch.  The host
\* dispatches fetch events to an activated agent; the model dispatches them
\* once the manifest operations install started have settled.
FetchEvent(rq) ==
    /\ phase = "activated"
    /\ \A i \in Assets : asset[i] \in {"idle", "skipped", "cached", "failed"}
    /\ Handled + Len(passed) < MaxFetches
    /\ activateRuns' = << >>
    /\ IF Skips(rq) \/ Bucket(rq) = "threw"
       THEN /\ passed' = Append(passed, IF Skips(rq) THEN "skipped" ELSE "threw")
            /\ UNCHANGED req
       ELSE /\ req' = [req EXCEPT ![Handled + 1] =
                          [FreeSlot EXCEPT
                              !.url = rq.url,
                              !.bucket = Bucket(rq),
                              !.st = IF Bucket(rq) \in {"html", "default"}
                                     THEN "race" ELSE "lookup",
                              !.net = IF Bucket(rq) \in {"html", "default"}
                                      THEN "pending" ELSE "none"]]
            /\ UNCHANGED passed
    /\ UNCHANGED << cacheNames, store, phase, installVars, notifyVars >>

\* CacheLookup answering from the network on a hit as on a miss.
CacheLookupAlwaysFetches(s) ==
    /\ req[s].st = "lookup"
    /\ LET q == req[s]
           m == CachesMatch(cacheNames, store, q.url)
       IN  req' = [req EXCEPT ![s] = [q EXCEPT !.hit = m, !.st = "fetch",
                                               !.net = "pending"]]
    /\ UNCHANGED << cacheNames, store, phase, installVars, activateRuns, passed, notifyVars >>

\* caches.match(request) of the image and static branches.
CacheLookup(s) ==
    /\ req[s].st = "lookup"
    /\ LET q == req[s]
           m == CachesMatch(cacheNames, store, q.url)
       IN  req' = [req EXCEPT ![s] =
                      IF m # None
                      THEN [q EXCEPT !.hit = m, !.result = m, !.st = "done",
                                     !.net = "pending"]
                      ELSE [q EXCEPT !.st = "fetch", !.net = "pending"]]
    /\ UNCHANGED << cacheNames, store, phase, installVars, activateRuns, passed, notifyVars >>

\* NetworkResponds caching the answer of a fetch that lost the race.
NetworkRespondsLateWrite(s, r) ==
    /\ req[s].net = "pending"
    /\ LET q == req[s]
           w == IF Cacheable(q.bucket, r) THEN "pending" ELSE "none"
       IN  req' = [req EXCEPT ![s] =
                      IF q.st \in {"race", "fetch"}
                      THEN [q EXCEPT !.net = "settled", !.netResp = r, !.result = r,
                                     !.st = "done", !.write = w]
                      ELSE [q EXCEPT !.net = "settled", !.netResp = r, !.write = w]]
    /\ UNCHANGED << cacheNames, store, phase, installVars, activateRuns, passed, notifyVars >>

\* NetworkResponds treating a response that is not 200 as a failed fetch of
\* the html branch.
NetworkRespondsOfflineOnError(s, r) ==
    /\ req[s].net = "pending"
    /\ LET q == req[s]
           w == IF Cacheable(q.bucket, r) THEN "pending" ELSE "none"
       IN  req' = [req EXCEPT ![s] =
                      IF q.st = "race" /\ q.bucket = "html" /\ r.status # 200
                      THEN [q EXCEPT !.net = "settled", !.netResp = r,
                                     !.st = "offline"]
                      ELSE IF q.st \in {"race", "fetch"}
                      THEN [q EXCEPT !.net = "settled", !.netResp = r, !.result = r,
                                     !.st = "done", !.write = w]
                      ELSE IF q.bucket \in {"image", "static"}
                      THEN [q EXCEPT !.net = "settled", !.netResp = r, !.write = w]
                      ELSE [q EXCEPT !.net = "settled"]]
    /\ UNCHANGED << cacheNames, store, phase, installVars, activateRuns, passed, notifyVars >>

\* The network answers the fetch of request s with r.  The answer is used
\* when the handler still waits for it; a background refresh only caches
\* it; after the timer won the race nobody reads it.
NetworkResponds(s, r) ==
    /\ req[s].net = "pending"
    /\ LET q == req[s]
           w == IF Cacheable(q.bucket, r) THEN "pending" ELSE "none"
       IN  req' = [req EXCEPT ![s] =
                      IF q.st \in {"race", "fetch"}
                      THEN [q EXCEPT !.net = "settled", !.netResp = r, !.result = r,
                                     !.st = "done", !.write = w]
                      ELSE IF q.bucket \in {"image", "static"}
                      THEN [q EXCEPT !.net = "settled", !.netResp = r, !.write = w]
                      ELSE [q EXCEPT !.net = "settled"]]
    /\ UNCHANGED << cacheNames, store, phase, installVars, activateRuns, passed, notifyVars >>

\* NetworkFails answering a cache-first miss with the offline page.
NetworkFailsOffline(s) ==
    /\ req[s].net = "pending"
    /\ LET q == req[s]
       IN  req' = [req EXCEPT ![s] =
                      IF q.st = "race"
                      THEN [q EXCEPT !.net = "settled", !.netResp = Failure,
                                     !.st = "fallback"]
                      ELSE IF q.st = "fetch"
                      THEN [q EXCEPT !.net = "settled", !.netResp = Failure,
                                     !.result = CachesMatch(cacheNames, store, OFFLINE_URL),
                                     !.st = "done"]
                      ELSE [q EXCEPT !.net = "settled"]]
    /\ UNCHANGED << cacheNames, store, phase, installVars, activateRuns, passed, notifyVars >>

\* The fetch of request s rejects.
NetworkFails(s) ==
    /\ req[s].net = "pending"
    /\ LET q == req[s]
       IN  req' = [req EXCEPT ![s] =
                      IF q.st = "race"
                      THEN [q EXCEPT !.net = "settled", !.netResp = Failure,
                                     !.st = "fallback"]
                      ELSE IF q.st = "fetch"
                      THEN [q EXCEPT !.net = "settled", !.netResp = Failure,
                                     !.result = Failure, !.st = "done"]
                      ELSE [q EXCEPT !.net = "settled"]]
    /\ UNCHANGED << cacheNames, store, phase, installVars, activateRuns, passed, notifyVars >>

\* TimerFires with a timer that also overrides an answer already given.
TimerFiresLate(s) ==
    /\ req[s].st = "race" \/ (req[s].st = "done" /\ ~req[s].timedOut)
    /\ TimeoutOf(req[s].bucket) > 0
    /\ req' = [req EXCEPT ![s].timedOut = TRUE, ![s].st = "fallback"]
    /\ UNCHANGED << cacheNames, store, phase, installVars, activateRuns, passed, notifyVars >>

\* The timer of fetchWithTimeout rejects the race before the fetch settles.
TimerFires(s) ==
    /\ req[s].st = "race"
    /\ TimeoutOf(req[s].bucket) > 0
    /\ req' = [req EXCEPT ![s].timedOut = TRUE, ![s].st = "fallback"]
    /\ UNCHANGED << cacheNames, store, phase, installVars, activateRuns, passed, notifyVars >>

\* CacheFallback without the lookup of the request: the html branch goes
\* straight to the offline page.
CacheFallbackSkipsLookup(s) ==
    /\ req[s].st = "fallback"
    /\ LET q == req[s]
       IN  req' = [req EXCEPT ![s] =
                      IF q.bucket = "html"
                      THEN [q EXCEPT !.st = "offline"]
                      ELSE [q EXCEPT !.result = Failure, !.st = "done"]]
    /\ UNCHANGED << cacheNames, store, phase, installVars, activateRuns, passed, notifyVars >>

\* CacheFallback with the offline page as the last resort of the default
\* branch too.
CacheFallbackOfflineForAll(s) ==
    /\ req[s].st = "fallback"
    /\ LET q == req[s]
           m == CachesMatch(cacheNames, store, q.url)
       IN  req' = [req EXCEPT ![s] =
                      IF m # None
                      THEN [q EXCEPT !.hit = m, !.result = m, !.st = "done"]
                      ELSE [q EXCEPT !.st = "offline"]]
    /\ UNCHANGED << cacheNames, store, phase, installVars, activateRuns, passed, notifyVars >>

\* caches.match(request) in the catch handler of the html and default
\* branches.
CacheFallback(s) ==
    /\ req[s].st = "fallback"
    /\ LET q == req[s]
           m == CachesMatch(cacheNames, store, q.url)
       IN  req' = [req EXCEPT ![s] =
                      IF m # None
                      THEN [q EXCEPT !.hit = m, !.result = m, !.st = "done"]
                      ELSE IF q.bucket = "html"
                      THEN [q EXCEPT !.st = "offline"]
                      ELSE [q EXCEPT !.result = Failure, !.st = "done"]]
    /\ UNCHANGED << cacheNames, store, phase, installVars, activateRuns, passed, notifyVars >>

\* caches.match(OFFLINE_URL); responding with undefined is a network error.
OfflineFallback(s) ==
    /\ req[s].st = "offline"
    /\ LET m == CachesMatch(cacheNames, store, OFFLINE_URL)
       IN  req' = [req EXCEPT ![s].result = IF m # None THEN m ELSE Failure,
                              ![s].st = "done"]
    /\ UNCHANGED << cacheNames, store, phase, installVars, activateRuns, passed, notifyVars >>

\* ApplyWrite keeping an entry that is already there.
ApplyWriteIfAbsent(s) ==
    /\ req[s].write = "pending"
    /\ cacheNames' = CachesOpen(cacheNames, TargetCache(req[s].bucket))
    /\ store' = IF store[TargetCache(req[s].bucket)][req[s].url] = None
                THEN CachePut(store, TargetCache(req[s].bucket), req[s].url,
                              req[s].netResp)
                ELSE store
    /\ req' = [req EXCEPT ![s].write = "applied"]
    /\ UNCHANGED << phase, installVars, activateRuns, passed, notifyVars >>

\* caches.open(name).then(cache => cache.put(request, clone)) of request s.
ApplyWrite(s) ==
    /\ req[s].write = "pending"
    /\ cacheNames' = CachesOpen(cacheNames, TargetCache(req[s].bucket))
    /\ store' = CachePut(store, TargetCache(req[s].bucket), req[s].url, req[s].netResp)
    /\ req' = [req EXCEPT ![s].write = "applied"]
    /\ UNCHANGED << phase, installVars, activateRuns, passed, notifyVars >>

(***************************************************************************)
(* push and notificationclick                                              *)
(***************************************************************************)
\* The payload of a push event: event.data is null, or its text().
PushData == { << >>, << "" >>, << "Hello" >> }

\* event.data?.text() || 'New update available!'
PushBody(data) ==
    IF data = << >> \/ data[1] = "" THEN "New update available!" ELSE data[1]

\* event.action: the action button clicked, '' for a click on the
\* notification itself, or an action this version does not define.
ClickActions == {"explore", "close", "", "later"}

\* self.registration.showNotification('Sarthak Ojha', options)
Push(data) ==
    /\ Len(notifications) < MaxNotifications
    /\ notifications' = Append(notifications,
                               [title |-> "Sarthak Ojha", body |-> PushBody(data),
                                open |-> TRUE, clicked |-> "none"])
    /\ UNCHANGED << windows, swVars >>

\* WindowsOpened with a last branch that opens nothing.
WindowsOpenedExploreOnly(action) ==
    IF action = "explore" THEN << U_ROOT >>
    ELSE << >>

\* The calls of clients.openWindow the if/else chain makes for an action.
WindowsOpened(action) ==
    IF action = "explore" THEN << U_ROOT >>
    ELSE IF action = "close" THEN << >>
    ELSE << U_ROOT >>

\* A click on the displayed notification n, or on one of its actions.
NotificationClick(n, action) ==
    /\ n \in 1..Len(notifications)
    /\ notifications[n].open
    /\ notifications' = [notifications EXCEPT ![n].open = FALSE,
                                               ![n].clicked = action]
    /\ windows' = windows \o WindowsOpened(action)
    /\ UNCHANGED swVars

Next ==
    \/ \E opened \in SUBSET CurrentNames : InstallOpen(opened)
    \/ \E i \in Assets : AssetMatch(i)
    \/ \E i \in Assets, r \in InstallResponses \cup {Failure, None} : AssetFetched(i, r)
    \/ \E i \in Assets, ok \in BOOLEAN : AssetPut(i, ok)
    \/ \E ok \in BOOLEAN : OfflinePut(ok)
    \/ InstallSettle
    \/ ActivateFirstPass
    \/ ActivateSecondPass
    \/ \E rq \in RequestInputs : FetchEvent(rq)
    \/ \E s \in Slots : CacheLookup(s)
    \/ \E s \in Slots, r \in NetResponses : NetworkResponds(s, r)
    \/ \E s \in Slots : NetworkFails(s)
    \/ \E s \in Slots : TimerFires(s)
    \/ \E s \in Slots : CacheFallback(s)
    \/ \E s \in Slots : OfflineFallback(s)
    \/ \E s \in Slots : ApplyWrite(s)

Spec == Init /\ [][Next]_vars

\* The timer of a race fires unless the fetch settles first, and a lookup in
\* the cache storage settles; nothing makes the network answer.
FairSpec ==
    /\ Spec
    /\ \A s \in Slots :
          /\ WF_vars(TimerFires(s))
          /\ WF_vars(CacheFallback(s))
          /\ WF_vars(OfflineFallback(s))

\* The notification handlers read and write nothing of the cache and fetch
\* state, so their behaviours are explored on their own.
NotificationNext ==
    \/ \E data \in PushData : Push(data)
    \/ \E n \in 1..MaxNotifications, action \in ClickActions : NotificationClick(n, action)

NotificationSpec == Init /\ [][NotificationNext]_vars

(***************************************************************************)
(* Properties                                                              *)
(***************************************************************************)
Existing == SeqRange(cacheNames)

\* The first partition, in creation order, that holds key k (0: none).
FirstHolder(k) ==
    IF \E i \in 1..Len(cacheNames) : store[cacheNames[i]][k] # None
    THEN CHOOSE i \in 1..Len(cacheNames) :
            /\ store[cacheNames[i]][k] # None
            /\ \A j \in 1..(i - 1) : store[cacheNames[j]][k] = None
    ELSE 0

\* C1: once activate has completed, the partitions that exist are exactly
\* the primary, the image and the offline partition.
C1_ExactlyCurrentAfterActivate ==
    phase = "activated" => Existing = CurrentNames

\* C2: an html request the network answers with status 200 before the timer
\* fires is answered with that response, which is queued for the primary
\* partition; when the write is applied, the primary partition holds it
\* under the request's key.
C2_HtmlFresh ==
    /\ [](\A s \in Slots :
            (req[s].bucket = "html" /\ req[s].st = "done" /\ ~req[s].timedOut
                /\ req[s].netResp # Failure /\ req[s].netResp.status = 200)
            => /\ req[s].result = req[s].netResp
               /\ req[s].write \in {"pending", "applied"})
    /\ [][\A s \in Slots :
            (req[s].bucket = "html" /\ req[s].netResp.status = 200
                /\ req[s].write = "pending" /\ req'[s].write = "applied")
            => /\ CACHE_NAME \in SeqRange(cacheNames')
               /\ store'[CACHE_NAME][req[s].url] = req[s].netResp]_vars

C2_Witness ==
    \E s \in Slots :
        /\ req[s].bucket = "html" /\ req[s].write = "applied"
        /\ req[s].netResp.status = 200
        /\ req[s].result = req[s].netResp
        /\ store[CACHE_NAME][req[s].url] = req[s].netResp

C4_OfflineDocumentServed ==
    [][\A s \in Slots :
          (skipWaiting /\ req[s].st = "offline" /\ req'[s].st = "done"
              /\ store[OFFLINE_CACHE][OFFLINE_URL] = OfflineDoc)
          => req'[s].result = OfflineDoc]_vars

\* C5: an image request whose key is cached is answered with the cached
\* entry, whatever the background refresh of the same event brings.
C5_CachedImageServed ==
    \A s \in Slots :
        (req[s].bucket = "image" /\ req[s].hit # None)
        => req[s].st = "done" /\ req[s].result = req[s].hit

C5_Witness ==
    \E s \in Slots :
        /\ req[s].bucket = "image" /\ req[s].hit # None
        /\ req[s].net = "settled"
        /\ req[s].netResp \notin {req[s].hit, None}
        /\ req[s].result = req[s].hit

Url(i) == STATIC_ASSETS[i].url

InExactlyOneBySuffix(u) ==
    IF IsImageUrl(u)
    THEN store[IMAGE_CACHE][u] # None /\ store[CACHE_NAME][u] = None
    ELSE store[CACHE_NAME][u] # None /\ store[IMAGE_CACHE][u] = None

\* C6 as claimed: once install has completed, every manifest entry is in
\* exactly one of the primary and image partitions, the one its suffix
\* selects, or a failed fetch was logged for it.
C6_EveryAssetCachedOrLogged ==
    (phase = "installed" /\ skipWaiting)
    => \A i \in Assets : InExactlyOneBySuffix(Url(i)) \/ asset[i] = "failed"

\* C6 amended: once install has completed, every manifest entry whose
\* operation has settled was either found in some partition by the lookup
\* (then nothing was fetched or written for it), or is in exactly one of
\* the primary and image partitions, the one its suffix selects, or a
\* failure was logged for it; after a successful install all have settled.
C6_EveryAssetFoundCachedOrLogged ==
    phase = "installed"
    => /\ \A i \in Assets :
            \/ asset[i] \in {"idle", "matching", "fetching", "putting"}
            \/ asset[i] = "skipped" /\ FirstHolder(Url(i)) # 0
            \/ asset[i] = "cached" /\ InExactlyOneBySuffix(Url(i))
                  /\ FirstHolder(Url(i)) # 0
                  /\ cacheNames[FirstHolder(Url(i))] = AssetTarget(Url(i))
            \/ asset[i] = "failed"
       /\ (skipWaiting => \A i \in Assets : AssetSettled(i))

C6_Witness ==
    /\ phase = "installed" /\ skipWaiting
    /\ asset[2] = "cached" /\ store[CACHE_NAME][U_STYLE] = Resp(200, "basic", 1)
    /\ asset[3] = "cached" /\ store[IMAGE_CACHE][U_PROFILE] # None
    /\ asset[1] = "failed"

\* C7: a request of a cache-first branch whose key is not cached and whose
\* fetch fails is answered with a failure and writes nothing: unless another
\* request wrote the key, the target partition has no entry for it.
C7_CacheFirstMissFails ==
    \A s \in Slots :
        (req[s].bucket \in {"image", "static"} /\ req[s].hit = None
            /\ req[s].netResp = Failure)
        => /\ req[s].st = "done"
           /\ req[s].result = Failure
           /\ req[s].write = "none"
           /\ ((\A t \in Slots \ {s} :
                   req[t].url # req[s].url \/ req[t].write # "applied")
               => store[TargetCache(req[s].bucket)][req[s].url] = None)

C7_Witness ==
    \E s \in Slots :
        /\ req[s].bucket = "image" /\ req[s].hit = None
        /\ req[s].netResp = Failure /\ req[s].result = Failure
        /\ store[IMAGE_CACHE][req[s].url] = None

\* C8: a second run of activate right after the first leaves the same set
\* of partitions as the first.
C8_ActivateIdempotent ==
    Len(activateRuns) = 2 => SeqRange(activateRuns[1]) = SeqRange(activateRuns[2])

C8_Witness ==
    /\ Len(activateRuns) = 2
    /\ SeqRange(activateRuns[2]) = CurrentNames
    /\ Existing = CurrentNames

\* C9: when install fails as a whole, the promise given to the host for the
\* install event is rejected.
C9_FailedInstallRejects ==
    installLog = "error" => installPromise = "rejected"

\* C10: failed manifest entries do not abort install: when the partitions
\* opened and the offline page's write succeeded, install ends with the
\* Offline Document stored, every fetched entry cached and skipWaiting
\* called, whichever entries failed.
C10_AssetFailuresNotFatal ==
    (phase = "installed" /\ offlinePut = "ok")
    => /\ skipWaiting
       /\ installPromise = "fulfilled" /\ installLog = "none"
       /\ store[OFFLINE_CACHE][OFFLINE_URL] = OfflineDoc
       /\ \A i \in Assets :
            asset[i] = "cached"
            => store[AssetTarget(Url(i))][Url(i)].status = 200

C10_Witness ==
    /\ phase = "installed" /\ skipWaiting
    /\ \E i \in Assets : asset[i] = "failed"
    /\ \E i \in Assets : asset[i] = "cached"
    /\ store[OFFLINE_CACHE][OFFLINE_URL] = OfflineDoc

\* C11: every fetch event the filter does not ignore gets exactly one of the
\* four strategies, whatever its Accept header (an absent one included) and
\* URL: no event leaves the handler without a strategy.
C11_ExactlyOneStrategy ==
    skipWaiting
    => /\ \A i \in 1..Len(passed) : passed[i] = "skipped"
       /\ \A s \in Slots :
            req[s].st # "free"
            => Cardinality({b \in {"html", "image", "static", "default"} :
                               req[s].bucket = b}) = 1

\* The requests of RequestInputs the filter is said to ignore.
C12_Ignored(rq) ==
    \/ rq.method = "POST"
    \/ rq.url = U_EXTENSION
    \/ rq.url = U_TOOLING
    \/ (rq.cache = "only-if-cached" /\ rq.mode = "cors")

\* C12: a fetch event for a request that is not GET, or of the
\* chrome-extension: scheme, or of browser-sync, or only-if-cached outside
\* same-origin mode, starts no lookup, no fetch and no write, and leaves
\* every partition as it was.
C12_IgnoredPassThrough ==
    [][\A rq \in RequestInputs :
          (C12_Ignored(rq) /\ FetchEvent(rq))
          => /\ passed' = Append(passed, "skipped")
             /\ UNCHANGED << cacheNames, store, req >>]_vars

C12_Witness ==
    /\ Len(passed) = 1 /\ passed[1] = "skipped"
    /\ Existing = CurrentNames
    /\ \A s \in Slots : req[s].st = "free"

\* C13: no timeout applies to a request of the default branch: it leaves
\* the wait for the network only when the fetch has answered or failed.
C13_DefaultWaitsForNetwork ==
    skipWaiting
    => \A s \in Slots :
         (req[s].bucket = "default" /\ req[s].st # "race")
         => req[s].netResp # None

\* C13, amended: the default branch races its fetch against the 5-second
\* default timer of fetchWithTimeout.  A network response that arrives
\* during the race is the response returned; the request goes to the cache
\* fallback when the fetch failed or the timer fired first, and after the
\* timer fired the answer is the cached match or a failure, never the
\* network response.
C13_DefaultRacesTimer ==
    \A s \in Slots :
        req[s].bucket = "default"
        => /\ req[s].st # "race" => (req[s].netResp # None \/ req[s].timedOut)
           /\ req[s].netResp \in NetResponses
              => /\ req[s].st = "done" /\ req[s].result = req[s].netResp
                 /\ ~req[s].timedOut
           /\ req[s].timedOut
              => /\ req[s].netResp = None
                 /\ req[s].st = "done"
                    => req[s].result = IF req[s].hit # None THEN req[s].hit
                                       ELSE Failure

C13_Witness ==
    \E s \in Slots :
        /\ req[s].bucket = "default" /\ req[s].timedOut
        /\ req[s].st = "done" /\ req[s].net = "settled"
        /\ req[s].hit # None /\ req[s].result = req[s].hit
        /\ TimeoutOf("default") = 5000

\* C14: a default-branch request whose fetch failed is answered with the
\* cached match of its key, or with a failure when there is none, and no
\* request that does not accept text/html is ever answered with the Offline
\* Document.
C14_NeverOfflineDocument ==
    skipWaiting
    => \A s \in Slots :
         req[s].bucket \in {"image", "static", "default"}
         => /\ req[s].result # OfflineDoc
            /\ (req[s].bucket = "default" /\ req[s].netResp = Failure
                    /\ req[s].st = "done")
               => req[s].result = IF req[s].hit # None THEN req[s].hit ELSE Failure

\* C14, amended: the fallback of a default-branch request answers with the
\* entry of the first partition that holds the request's key, or with a
\* failure when no partition holds it; a request that does not accept
\* text/html gets the Offline Document only as the cached match of its own
\* key '/offline.html'.
C14_DefaultFallback ==
    /\ [](\A s \in Slots :
            (req[s].bucket \in {"image", "static", "default"}
                /\ req[s].result = OfflineDoc)
            => req[s].url = OFFLINE_URL /\ req[s].hit = OfflineDoc)
    /\ [][\A s \in Slots :
            (req[s].bucket = "default" /\ req[s].st = "fallback"
                /\ req'[s].st # "fallback")
            => /\ req'[s].st = "done"
               /\ req'[s].result =
                     IF FirstHolder(req[s].url) # 0
                     THEN store[cacheNames[FirstHolder(req[s].url)]][req[s].url]
                     ELSE Failure]_vars

C14_Witness ==
    /\ \E s \in Slots :
          /\ req[s].bucket = "default" /\ req[s].netResp = Failure
          /\ req[s].st = "done" /\ req[s].hit # None
          /\ req[s].result = req[s].hit
    /\ \E s \in Slots :
          /\ req[s].bucket = "default" /\ req[s].netResp = Failure
          /\ req[s].st = "done" /\ req[s].hit = None
          /\ req[s].result = Failure

\* The partition the image, static and default branches are said to write to.
C15_Partition(b) == IF b = "image" THEN IMAGE_CACHE ELSE CACHE_NAME

\* C15: in the image, static and default branches a network response is
\* written only when its status is 200 and its type is 'basic'; any other
\* response is returned to the requester that waits for it and no write of
\* it is started; the arrival of a response changes no partition; a write
\* changes exactly the entry of the request's key in the image partition
\* for an image and in the primary partition otherwise.
C15_OnlyOkBasicWritten ==
    /\ [](\A s \in Slots :
            req[s].bucket \in {"image", "static", "default"}
            => /\ req[s].write # "none"
                  => req[s].netResp.status = 200 /\ req[s].netResp.type = "basic"
               /\ (req[s].netResp \in NetResponses
                       /\ ~(req[s].netResp.status = 200
                              /\ req[s].netResp.type = "basic"))
                  => /\ req[s].write = "none"
                     /\ req[s].hit = None => req[s].result = req[s].netResp)
    /\ [][\A s \in Slots :
            req[s].bucket \in {"image", "static", "default"}
            => /\ (req[s].net = "pending" /\ req'[s].net = "settled")
                  => UNCHANGED << cacheNames, store >>
               /\ (req[s].write = "pending" /\ req'[s].write = "applied")
                  => /\ store'[C15_Partition(req[s].bucket)][req[s].url]
                          = req[s].netResp
                     /\ C15_Partition(req[s].bucket) \in SeqRange(cacheNames')
                     /\ \A n \in AllNames, k \in Keys :
                          (n # C15_Partition(req[s].bucket) \/ k # req[s].url)
                          => store'[n][k] = store[n][k]]_vars

C15_Witness ==
    /\ \E s \in Slots :
          /\ req[s].bucket = "default" /\ req[s].netResp = Resp(200, "cors", 1)
          /\ req[s].result = req[s].netResp /\ req[s].write = "none"
    /\ \E s \in Slots :
          /\ req[s].bucket = "image" /\ req[s].write = "applied"
          /\ store[IMAGE_CACHE][req[s].url] = req[s].netResp
          /\ store[CACHE_NAME][req[s].url] = None

\* C16 (after an install that succeeded): activate never deletes a partition
\* whose name starts with 'workbox-': both passes leave it in place with its
\* contents.
C16_WorkboxPreserved ==
    [][\A n \in AllNames :
          (skipWaiting /\ StartsWith(n, "workbox-") /\ n \in SeqRange(cacheNames))
          => n \in SeqRange(cacheNames') /\ store'[n] = store[n]]_vars

\* C17 (after an install that succeeded): once the write of a network
\* response under a request's key is done, matching that key over all
\* partitions returns the response just written, whatever the other
\* partitions hold.
C17_RoundTrip ==
    [][\A s \in Slots :
          (skipWaiting /\ req[s].write = "pending" /\ req'[s].write = "applied")
          => CachesMatch(cacheNames', store', req[s].url) = req[s].netResp]_vars

\* C18: a request is answered with the Offline Document only when its
\* fetch failed or timed out and the lookup of its key found no cached copy.
C18_OfflineDocumentLastResort ==
    skipWaiting
    => \A s \in Slots :
         req[s].result = OfflineDoc
         => /\ req[s].netResp = Failure \/ req[s].timedOut
            /\ req[s].hit = None

\* C18, amended: a request is answered with the Offline Document only when
\* its fetch failed or timed out, and then either the lookup of its key
\* found no cached copy (html branch only) or the request is for
\* '/offline.html' itself and the Offline Document is the cached copy found;
\* the offline fallback step is entered only by an html request whose fetch
\* failed or timed out and whose key no partition holds.
C18_OfflineDocumentOnlyAfterFailure ==
    /\ [](\A s \in Slots :
            req[s].result = OfflineDoc
            => /\ req[s].netResp = Failure \/ req[s].timedOut
               /\ req[s].netResp \notin NetResponses
               /\ \/ req[s].hit = None /\ req[s].bucket = "html"
                  \/ req[s].hit = OfflineDoc /\ req[s].url = OFFLINE_URL)
    /\ [][\A s \in Slots :
            (req[s].st # "offline" /\ req'[s].st = "offline")
            => /\ req[s].bucket = "html"
               /\ req[s].netResp = Failure \/ req[s].timedOut
               /\ CachesMatch(cacheNames, store, req[s].url) = None]_vars

C18_Witness ==
    \E s \in Slots :
        /\ req[s].bucket = "html" /\ req[s].url # OFFLINE_URL
        /\ req[s].st = "done" /\ req[s].result = OfflineDoc
        /\ req[s].hit = None /\ req[s].netResp = Failure

\* C19: a click closes the notification it is on, and opens the window '/'
\* exactly when its action is not 'close' ('explore', none, or an action
\* the agent does not know); a click with the action 'close' opens nothing.
C19_ClickOpensOriginWindow ==
    [][\A n \in 1..Len(notifications) :
          (notifications[n].clicked = "none" /\ notifications'[n].clicked # "none")
          => /\ ~notifications'[n].open
             /\ notifications'[n].clicked = "close" => windows' = windows
             /\ notifications'[n].clicked # "close"
                => windows' = Append(windows, << "/" >>)]_vars

C19_Witness ==
    /\ Len(notifications) = 2
    /\ notifications[1].clicked = "close" /\ ~notifications[1].open
    /\ notifications[2].clicked = "later" /\ ~notifications[2].open
    /\ windows = << << "/" >> >>

\* C20: in the html branch, when the 3-second timer fires before the fetch
\* settles, the request goes to the cache/offline fallback while its fetch
\* stays in flight; when that fetch settles later, the answer given or
\* still to be given by the fallback is not touched, no write is started
\* and no partition changes.
C20_RaceLoserDiscarded ==
    /\ [](\A s \in Slots :
            (req[s].bucket = "html" /\ req[s].timedOut)
            => /\ req[s].netResp = None /\ req[s].write = "none"
               /\ req[s].st \in {"fallback", "offline", "done"}
               /\ (req[s].st = "done" /\ req[s].hit # None)
                  => req[s].result = req[s].hit)
    /\ [][\A s \in Slots :
            req[s].bucket = "html"
            => /\ (~req[s].timedOut /\ req'[s].timedOut)
                  => /\ req[s].net = "pending" /\ req'[s].net = "pending"
                     /\ req'[s].st = "fallback"
                     /\ TimeoutOf(req[s].bucket) = 3000
               /\ (req[s].timedOut /\ req[s].net = "pending"
                       /\ req'[s].net = "settled")
                  => /\ req'[s].result = req[s].result
                     /\ req'[s].st = req[s].st
                     /\ req'[s].write = "none"
                     /\ UNCHANGED << cacheNames, store >>]_vars

C20_Witness ==
    \E s \in Slots :
        /\ req[s].bucket = "html" /\ req[s].timedOut
        /\ req[s].net = "settled" /\ req[s].st = "done"
        /\ req[s].write = "none"
        /\ \A n \in AllNames : store[n][req[s].url] = None

\* C21 (after an install that succeeded): when a fetch event is finished,
\* that is when its response has been given to the requester, no fetch and
\* no cache write that its handler started is still pending.
C21_NothingPendingWhenFinished ==
    skipWaiting
    => \A s \in Slots :
         req[s].st = "done"
         => req[s].write # "pending" /\ req[s].net # "pending"

\* Two requests for the same key in a cache-first branch that both missed
\* the cache.
C22_BothMissed(s, t) ==
    /\ s # t /\ req[s].url = req[t].url
    /\ req[s].bucket \in {"image", "static"} /\ req[t].bucket = req[s].bucket
    /\ req[s].hit = None /\ req[t].hit = None
    /\ req[s].net # "none" /\ req[t].net # "none"

\* C22: two concurrent requests for the same uncached image or static asset
\* may both miss and both fetch; each is answered with its own network
\* response, and each write that is applied leaves the key's entry of the
\* branch's partition equal to the response of that write, so that after
\* both the entry is the one written last.
C22_LastWriteWins ==
    /\ [](\A s, t \in Slots :
            C22_BothMissed(s, t)
            => /\ req[s].netResp \in NetResponses
                  => req[s].st = "done" /\ req[s].result = req[s].netResp
               /\ (req[s].write = "applied" /\ req[t].write = "applied")
                  => store[C15_Partition(req[s].bucket)][req[s].url]
                        \in {req[s].netResp, req[t].netResp})
    /\ [][\A s, t \in Slots :
            (C22_BothMissed(s, t) /\ req[s].write = "pending"
                /\ req'[s].write = "applied")
            => store'[C15_Partition(req[s].bucket)][req[s].url] = req[s].netResp]_vars

C22_Witness ==
    /\ C22_BothMissed(1, 2)
    /\ req[1].bucket = "image"
    /\ req[1].result = Resp(200, "basic", 1) /\ req[2].result = Resp(200, "basic", 2)
    /\ req[1].write = "applied" /\ req[2].write = "applied"
    /\ store[IMAGE_CACHE][req[1].url] = req[1].netResp

\* C23 (after an install that succeeded): no key has an entry in more than
\* one of the primary, the image and the offline partition.
C23_KeyInOnePartition ==
    skipWaiting
    => \A k \in Keys :
         Cardinality({n \in CurrentNames : store[n][k] # None}) <= 1

\* C24: once a successful install has been followed by activate, every
\* manifest entry without a logged failure has an entry in the primary or
\* in the image partition, whatever the storage held before install.
C24_ManifestCachedAfterActivate ==
    (phase = "activated" /\ skipWaiting)
    => \A i \in Assets :
         asset[i] # "failed"
         => \/ store[CACHE_NAME][Url(i)] # None
            \/ store[IMAGE_CACHE][Url(i)] # None

\* C25: skipWaiting is called only when every manifest entry's operation
\* has settled and the offline page's put is done; afterwards no fetch and
\* no put that install started is pending.
C25_SkipWaitingAfterAllSettled ==
    /\ [](skipWaiting
            => /\ offlinePut = "ok"
               /\ \A i \in Assets :
                    asset[i] \in {"skipped", "cached", "failed"}
                      /\ assetResp[i] = None)
    /\ [][(~skipWaiting /\ skipWaiting')
            => /\ offlinePut = "ok"
               /\ \A i \in Assets : asset[i] \notin {"matching", "fetching", "putting"}
               /\ installPromise' = "fulfilled"]_vars

C25_Witness ==
    /\ skipWaiting /\ phase = "installed"
    /\ asset[1] = "cached" /\ asset[2] = "failed" /\ asset[3] = "cached"
    /\ offlinePut = "ok"

\* C26: a manifest entry whose URL some partition holds when install looks
\* it up is never fetched, and no step of install changes an entry under
\* that URL in any partition.
C26_PresentAssetUntouched ==
    [][\A i \in Assets :
          /\ (asset[i] = "matching" /\ asset'[i] # "matching"
                 /\ \E n \in SeqRange(cacheNames) : store[n][Url(i)] # None)
             => asset'[i] = "skipped"
          /\ asset[i] = "skipped"
             => /\ asset'[i] = "skipped"
                /\ installVars' # installVars
                   => \A n \in AllNames : store'[n][Url(i)] = store[n][Url(i)]]_vars

C26_Witness ==
    /\ phase = "installed" /\ skipWaiting
    /\ asset[3] = "skipped"
    /\ store[IMAGE_CACHE][U_PROFILE] = Resp(200, "basic", 1)
    /\ store[OLD_CACHE][U_ROOT] = Resp(200, "basic", 1)
    /\ store[CACHE_NAME][U_ROOT] = None

\* C27: every request that accepts text/html is eventually answered, even
\* when its fetch never settles.
C27_HtmlEventuallyAnswered ==
    \A s \in Slots : (req[s].bucket = "html") ~> (req[s].st = "done")

C27_Witness ==
    \E s \in Slots :
        /\ req[s].bucket = "html" /\ req[s].st = "done"
        /\ req[s].timedOut /\ req[s].net = "pending"
        /\ req[s].netResp = None

\* C28: in the html branch a network response that wins the race is the
\* answer and is written under the request's key into the primary
\* partition whatever its status and type; the write replaces the entry
\* that was there, a good one included.
C28_HtmlWritesAnyResponse ==
    /\ [](\A s \in Slots :
            (req[s].bucket = "html" /\ req[s].netResp \in NetResponses)
            => /\ req[s].st = "done" /\ req[s].result = req[s].netResp
               /\ ~req[s].timedOut
               /\ req[s].write \in {"pending", "applied"})
    /\ [][\A s \in Slots :
            (req[s].bucket = "html" /\ req[s].write = "pending"
                /\ req'[s].write = "applied")
            => store'[CACHE_NAME][req[s].url] = req[s].netResp]_vars

C28_Witness ==
    \E s, t \in Slots :
        /\ req[s].bucket = "html" /\ req[t].bucket = "html"
        /\ req[s].url = req[t].url
        /\ req[t].netResp = Resp(200, "basic", 1) /\ req[t].write = "applied"
        /\ req[s].netResp = Resp(404, "basic", 0) /\ req[s].write = "applied"
        /\ req[s].result = req[s].netResp
        /\ store[CACHE_NAME][req[s].url] = Resp(404, "basic", 0)

\* C29: the offline partition holds at most one entry, the synthesized
\* document under '/offline.html'; only the put of install changes it, and
\* no step of a fetch event does.
C29_OfflinePartitionInstallOnly ==
    /\ [](\A k \in Keys :
            store[OFFLINE_CACHE][k] # None
            => k = << "/offline", ".", "html" >>
                 /\ store[OFFLINE_CACHE][k] = OfflineDoc)
    /\ [][/\ store'[OFFLINE_CACHE] # store[OFFLINE_CACHE]
               => offlinePut = "pending" /\ offlinePut' = "ok"
          /\ (req' # req \/ passed' # passed)
               => store'[OFFLINE_CACHE] = store[OFFLINE_CACHE]]_vars

C29_Witness ==
    /\ skipWaiting /\ phase = "activated"
    /\ store[OFFLINE_CACHE][OFFLINE_URL] = OfflineDoc
    /\ \E s \in Slots :
          /\ req[s].url = OFFLINE_URL /\ req[s].write = "applied"
          /\ store[CACHE_NAME][OFFLINE_URL] = req[s].netResp

=============================================================================
